---------------------------- MODULE Spec2Model ----------------------------
(***************************************************************************)
(* Model of the wavelength-calibration firmware                            *)
(* src/arduino/wavecal_uno/wavecal_uno.ino: a two-byte serial command      *)
(* protocol that drives five PWM pins and one digital pin and reports the  *)
(* last commanded value of each.                                           *)
(*                                                                         *)
(* Reading of the source.  The file as committed lacks the brace that      *)
(* closes the `pinByte == 6` branch (line 80/81) and two semicolons (lines *)
(* 2 and 91).  The model follows the only well-formed reading of the       *)
(* if / else-if chain: four branches, selector 5, selector 6, selector 7,  *)
(* and a final else that takes every other selector.                       *)
(*                                                                         *)
(* Undefined behaviour.  The final else indexes pins[] and status[] with   *)
(* the raw selector.  For a selector above 5 that is an access past the    *)
(* end of both six-element arrays.  The word read from past pins[] is      *)
(* whatever the neighbouring globals hold, so the pin that analogWrite     *)
(* receives is a nondeterministic choice (StrayPins).  On the AVR build    *)
(* the initialised globals (pins[], names[], the pin numbers) lie below    *)
(* status[], so the stray write of status[selector] cannot reach them, nor *)
(* status[0..5]; pinByte and pwmByte are either below status[] or at       *)
(* indices 6 and 7, which the earlier branches intercept.  What lies above *)
(* the sketch's globals is the zero-initialised data of the serial driver, *)
(* its receive buffer included.  The stray write is therefore a            *)
(* nondeterministic choice between leaving the pending bytes alone and     *)
(* overwriting the oldest of them with the 16-bit word written             *)
(* (StrayWrite).                                                           *)
(* The read-back that is printed returns the word just written.            *)
(***************************************************************************)
EXTENDS Integers, Sequences, FiniteSets, TLC

VARIABLES
    pc,        \* "setup" before setup() has run, "loop" at the top of loop(), "delay" inside delay(100)
    pins,      \* pins[]: channel index -> physical pin
    status,    \* status[]: channel index -> last commanded value
    out,       \* physical pins: pin -> [mode, kind, val], the last pinMode / write applied
    rx,        \* bytes received on the serial link and not yet read
    tx,        \* characters printed by the most recent iteration of loop()
    pinByte,   \* global pinByte
    pwmByte,   \* global pwmByte
    idx,       \* indices used on pins[] / status[] by the most recent iteration of loop()
    sent,      \* number of bytes the host has written so far
    wire,      \* the pending bytes as the host wrote them (rx before any stray write)
    last       \* per channel, what the most recent command read for it asks status[] to hold (0 if none)

vars == <<pc, pins, status, out, rx, tx, pinByte, pwmByte, idx, sent, wire, last>>

-----------------------------------------------------------------------------
(* Bounds of the model *)

\* the host writes at most this many bytes
MaxSent == 6

\* the same, in the specification with fairness
MaxLiveSent == 4

\* value bytes the host uses
ValSet == {0, 1, 128}

\* selectors the host uses: every selector the code tests for, and 8 for
\* those past the end of the tables
SelSet == 0..8

-----------------------------------------------------------------------------
(* Compile-time constants of the sketch *)

pin_mirror == 7
pin808 == 9
pin904 == 10
pin980 == 11
pin1120 == 6
pin1310 == 5

\* number of elements of pins[] and of status[]
NCHAN == 6

Chan == 0..(NCHAN - 1)

\* float FIRMWARE_VERSION = 0.1, held as its integer part and its hundredths
FIRMWARE_VERSION == [int |-> 0, hundredths |-> 10]

PinsInit == [i \in Chan |->
               CASE i = 0 -> pin808
                 [] i = 1 -> pin904
                 [] i = 2 -> pin980
                 [] i = 3 -> pin1120
                 [] i = 4 -> pin1310
                 [] i = 5 -> pin_mirror]

\* variant of StatusInit: the table starts at full scale
StatusInitFull == [i \in Chan |-> 255]

StatusInit == [i \in Chan |-> 0]

\* digital pins of the board
BoardPins == 0..13

\* a pin nothing has configured or written yet
Untouched == [mode |-> "INPUT", kind |-> "none", val |-> 0]

\* words a read past the end of pins[] can return: the pin numbers held by
\* the neighbouring initialised globals, or a zero word
StrayPins == {0, pin_mirror, pin808}

-----------------------------------------------------------------------------
(* Platform output primitives, as the sketch uses them *)

PinMode(o, p, m) == [o EXCEPT ![p].mode = m]

DigitalWrite(o, p, level) == [o EXCEPT ![p].kind = "digital", ![p].val = level]

\* analogWrite also switches the pin to output
AnalogWrite(o, p, duty) ==
    [o EXCEPT ![p].mode = "OUTPUT", ![p].kind = "analog", ![p].val = duty]

LOW == 0
HIGH == 1

-----------------------------------------------------------------------------
(* Serial.print *)

DigitChar(d) == <<"0", "1", "2", "3", "4", "5", "6", "7", "8", "9">>[d + 1]

RECURSIVE DEC(_)
\* Serial.print(n, DEC): the decimal digits of n, most significant first
DEC(n) == IF n < 10 THEN <<DigitChar(n)>>
          ELSE DEC(n \div 10) \o <<DigitChar(n % 10)>>

\* Serial.print(float): integer part, a point, two decimals
PrintFloat(f) ==
    DEC(f.int) \o <<".">> \o
    <<DigitChar(f.hundredths \div 10), DigitChar(f.hundredths % 10)>>

\* variant of Println: print() is called where println() was meant
PrintlnMissing == <<>>

\* Serial.println(): carriage return, line feed
Println == <<"\r", "\n">>

\* the "index:value" text of lines 75-77 and 87-89
PrintPair(i, v) == DEC(i) \o <<":">> \o DEC(v)

\* one turn of the for loop of print_status
PrintStatusEntry(st, i) ==
    PrintPair(i, st[i]) \o (IF i < 6 THEN <<",">> ELSE <<>>)

RECURSIVE PrintStatusFrom(_, _)
\* print_status: the for loop from index i up to, not including, 6
PrintStatusFrom(st, i) ==
    IF i < 6 THEN PrintStatusEntry(st, i) \o PrintStatusFrom(st, i + 1)
    ELSE <<>>

\* variant of print_status: the for loop starts at index 1
print_status_from_1(st) == PrintStatusFrom(st, 1)

print_status(st) == PrintStatusFrom(st, 0)

-----------------------------------------------------------------------------
(* State after the global initialisers have run *)

Init ==
    /\ pc = "setup"
    /\ pins = PinsInit
    /\ status = StatusInit
    /\ out = [p \in BoardPins |-> Untouched]
    /\ rx = <<>>
    /\ tx = <<>>
    /\ pinByte = 0
    /\ pwmByte = 0
    /\ idx = {}
    /\ sent = 0
    /\ wire = <<>>
    /\ last = [i \in Chan |-> 0]

\* variant of SetupOut: the mirror pin is configured but never driven low
SetupOutMirrorNotDriven(o) ==
    LET o1 == PinMode(o, pin_mirror, "OUTPUT")
        o2 == AnalogWrite(PinMode(o1, pin808, "OUTPUT"), pin808, 0)
        o3 == AnalogWrite(PinMode(o2, pin904, "OUTPUT"), pin904, 0)
        o4 == AnalogWrite(PinMode(o3, pin980, "OUTPUT"), pin980, 0)
        o5 == AnalogWrite(PinMode(o4, pin1120, "OUTPUT"), pin1120, 0)
    IN  AnalogWrite(PinMode(o5, pin1310, "OUTPUT"), pin1310, 0)

\* the pin writes of setup(), in source order
SetupOut(o) ==
    LET o1 == DigitalWrite(PinMode(o, pin_mirror, "OUTPUT"), pin_mirror, LOW)
        o2 == AnalogWrite(PinMode(o1, pin808, "OUTPUT"), pin808, 0)
        o3 == AnalogWrite(PinMode(o2, pin904, "OUTPUT"), pin904, 0)
        o4 == AnalogWrite(PinMode(o3, pin980, "OUTPUT"), pin980, 0)
        o5 == AnalogWrite(PinMode(o4, pin1120, "OUTPUT"), pin1120, 0)
    IN  AnalogWrite(PinMode(o5, pin1310, "OUTPUT"), pin1310, 0)

\* setup(): opens the serial port and drives every channel to its off level
Setup ==
    /\ pc = "setup"
    /\ out' = SetupOut(out)
    /\ pc' = "loop"
    /\ UNCHANGED <<pins, status, rx, tx, pinByte, pwmByte, idx, sent, wire, last>>

\* the host writes one byte of a command frame: a selector, then a value,
\* as long as it has written fewer than n bytes.
\* Nothing is received before Serial.begin.
SendUpTo(n) ==
    /\ pc # "setup"
    /\ sent < n
    /\ \E b \in (IF sent % 2 = 0 THEN SelSet ELSE ValSet) :
          rx' = Append(rx, b) /\ wire' = Append(wire, b)
    /\ sent' = sent + 1
    /\ UNCHANGED <<pc, pins, status, out, tx, pinByte, pwmByte, idx, last>>

Send == SendUpTo(MaxSent)

\* a queue without its first two bytes
DropFrame(q) == SubSeq(q, 3, Len(q))

\* what a command (s, v) for channel s asks status[s] to hold
Commanded(s, v) == IF s = 5 THEN (IF v = 0 THEN 0 ELSE 1) ELSE v

\* the record of the most recent command per channel, after the frame (s, v)
Noted(l, s, v) == IF s \in Chan THEN [l EXCEPT ![s] = Commanded(s, v)] ELSE l

\* variant of ReadFrame: the two reads are assigned the other way round
ReadFrameSwapped ==
    /\ pinByte' = rx[2]
    /\ pwmByte' = rx[1]
    /\ rx' = DropFrame(rx)
    /\ wire' = DropFrame(wire)
    /\ last' = Noted(last, rx[1], rx[2])

\* the two Serial.read() calls of lines 63-64
ReadFrame ==
    /\ pinByte' = rx[1]
    /\ pwmByte' = rx[2]
    /\ rx' = DropFrame(rx)
    /\ wire' = DropFrame(wire)
    /\ last' = Noted(last, rx[1], rx[2])

\* the pending bytes q after the 16-bit word v (low byte v, high byte 0) has
\* been stored over the oldest of them
Overwritten(q, v) ==
    [k \in 1..Len(q) |-> IF k = 1 THEN v ELSE IF k = 2 THEN 0 ELSE q[k]]

\* what the pending bytes q can be after status[selector] = v with the
\* selector past the end of status[]: untouched, or overwritten
StrayWrite(q, v) == {q, Overwritten(q, v)}

\* variant of DigitalLevel: the raw value byte is kept
DigitalLevelRaw(v) == v

\* level written and status stored by the selector-5 branch
DigitalLevel(v) == IF v = 0 THEN LOW ELSE HIGH

\* variant of StatusAfterDigital: the value byte is stored as received
StatusAfterDigitalRaw(st, sel, v) == [st EXCEPT ![sel] = v]

\* status[] after the selector-5 branch
StatusAfterDigital(st, sel, v) == [st EXCEPT ![sel] = DigitalLevel(v)]

\* variant of StatusAfterPwm: the entry of the next channel is written
StatusAfterPwmShifted(st, sel, v) == [st EXCEPT ![(sel + 1) % 5] = v]

\* variant of StatusAfterPwm: the table update is left out
StatusAfterPwmStale(st, sel, v) == st

\* status[] after the final else, for a selector inside the table
StatusAfterPwm(st, sel, v) == [st EXCEPT ![sel] = v]

\* variant of LoopDigital: the reply carries the value byte, not the level
LoopDigitalPrintsRaw ==
    /\ pc = "loop"
    /\ Len(rx) > 1
    /\ rx[1] = 5
    /\ ReadFrame
    /\ out' = DigitalWrite(out, pins[rx[1]], DigitalLevel(rx[2]))
    /\ status' = StatusAfterDigital(status, rx[1], rx[2])
    /\ tx' = PrintPair(rx[1], rx[2]) \o Println
    /\ idx' = {rx[1]}
    /\ pc' = "delay"
    /\ UNCHANGED <<pins, sent>>

\* loop(), selector 5: the digital channel
LoopDigital ==
    /\ pc = "loop"
    /\ Len(rx) > 1
    /\ rx[1] = 5
    /\ ReadFrame
    /\ out' = DigitalWrite(out, pins[rx[1]], DigitalLevel(rx[2]))
    /\ status' = StatusAfterDigital(status, rx[1], rx[2])
    /\ tx' = PrintPair(rx[1], status'[rx[1]]) \o Println
    /\ idx' = {rx[1]}
    /\ pc' = "delay"
    /\ UNCHANGED <<pins, sent>>

\* variant of LoopStatus: the query clears the table it has printed
LoopStatusClears ==
    /\ pc = "loop"
    /\ Len(rx) > 1
    /\ rx[1] = 6
    /\ ReadFrame
    /\ tx' = print_status(status) \o Println
    /\ status' = StatusInit
    /\ idx' = Chan
    /\ pc' = "delay"
    /\ UNCHANGED <<pins, out, sent>>

\* loop(), selector 6: status query
LoopStatus ==
    /\ pc = "loop"
    /\ Len(rx) > 1
    /\ rx[1] = 6
    /\ ReadFrame
    /\ tx' = print_status(status) \o Println
    /\ idx' = Chan
    /\ pc' = "delay"
    /\ UNCHANGED <<pins, status, out, sent>>

\* variant of LoopVersion: the value byte is printed in place of the version
LoopVersionEchoes ==
    /\ pc = "loop"
    /\ Len(rx) > 1
    /\ rx[1] = 7
    /\ ReadFrame
    /\ tx' = DEC(rx[2]) \o Println
    /\ idx' = {}
    /\ pc' = "delay"
    /\ UNCHANGED <<pins, status, out, sent>>

\* loop(), selector 7: version query
LoopVersion ==
    /\ pc = "loop"
    /\ Len(rx) > 1
    /\ rx[1] = 7
    /\ ReadFrame
    /\ tx' = PrintFloat(FIRMWARE_VERSION) \o Println
    /\ idx' = {}
    /\ pc' = "delay"
    /\ UNCHANGED <<pins, status, out, sent>>

\* variant of LoopPwm: delay(100) is skipped after a PWM command
LoopPwmNoDelay ==
    /\ pc = "loop"
    /\ Len(rx) > 1
    /\ rx[1] \notin {5, 6, 7}
    /\ rx[1] \in Chan
    /\ ReadFrame
    /\ out' = AnalogWrite(out, pins[rx[1]], rx[2])
    /\ status' = [status EXCEPT ![rx[1]] = rx[2]]
    /\ tx' = PrintPair(rx[1], status'[rx[1]]) \o Println
    /\ idx' = {rx[1]}
    /\ pc' = "loop"
    /\ UNCHANGED <<pins, sent>>

\* variant of LoopPwm: the value is stored in pins[] instead of status[]
LoopPwmWritesPins ==
    /\ pc = "loop"
    /\ Len(rx) > 1
    /\ rx[1] \notin {5, 6, 7}
    /\ rx[1] \in Chan
    /\ ReadFrame
    /\ out' = AnalogWrite(out, pins[rx[1]], rx[2])
    /\ pins' = [pins EXCEPT ![rx[1]] = rx[2]]
    /\ tx' = PrintPair(rx[1], status[rx[1]]) \o Println
    /\ idx' = {rx[1]}
    /\ pc' = "delay"
    /\ UNCHANGED <<status, sent>>

\* loop(), final else, selector inside the tables
LoopPwm ==
    /\ pc = "loop"
    /\ Len(rx) > 1
    /\ rx[1] \notin {5, 6, 7}
    /\ rx[1] \in Chan
    /\ ReadFrame
    /\ out' = AnalogWrite(out, pins[rx[1]], rx[2])
    /\ status' = StatusAfterPwm(status, rx[1], rx[2])
    /\ tx' = PrintPair(rx[1], status'[rx[1]]) \o Println
    /\ idx' = {rx[1]}
    /\ pc' = "delay"
    /\ UNCHANGED <<pins, sent>>

\* loop(), final else, selector past the end of the tables: pins[selector]
\* reads a stray word g, status[selector] is written outside the table
LoopOutOfRange ==
    /\ pc = "loop"
    /\ Len(rx) > 1
    /\ rx[1] \notin {5, 6, 7}
    /\ rx[1] \notin Chan
    /\ pinByte' = rx[1]
    /\ pwmByte' = rx[2]
    /\ wire' = DropFrame(wire)
    /\ last' = Noted(last, rx[1], rx[2])
    /\ \E g \in StrayPins : out' = AnalogWrite(out, g, rx[2])
    /\ rx' \in StrayWrite(DropFrame(rx), rx[2])
    /\ tx' = PrintPair(rx[1], rx[2]) \o Println
    /\ idx' = {rx[1]}
    /\ pc' = "delay"
    /\ UNCHANGED <<pins, status, sent>>

\* variant of LoopIdle: a single available byte is read as a selector
LoopIdleReadsOne ==
    /\ pc = "loop"
    /\ ~(Len(rx) > 1)
    /\ IF Len(rx) = 1
       THEN pinByte' = rx[1] /\ rx' = <<>> /\ wire' = <<>>
       ELSE UNCHANGED <<pinByte, rx, wire>>
    /\ tx' = <<>>
    /\ idx' = {}
    /\ pc' = "delay"
    /\ UNCHANGED <<pins, status, out, pwmByte, sent, last>>

\* loop() with fewer than two bytes available: the if body is skipped
LoopIdle ==
    /\ pc = "loop"
    /\ ~(Len(rx) > 1)
    /\ tx' = <<>>
    /\ idx' = {}
    /\ pc' = "delay"
    /\ UNCHANGED <<pins, status, out, rx, pinByte, pwmByte, sent, wire, last>>

\* variant of Delay: delay(100) never returns
DelayHangs ==
    /\ pc = "delay"
    /\ UNCHANGED vars

\* delay(100) returns and loop() is entered again
Delay ==
    /\ pc = "delay"
    /\ pc' = "loop"
    /\ UNCHANGED <<pins, status, out, rx, tx, pinByte, pwmByte, idx, sent, wire, last>>

Next ==
    \/ Setup
    \/ Send
    \/ LoopDigital
    \/ LoopStatus
    \/ LoopVersion
    \/ LoopPwm
    \/ LoopOutOfRange
    \/ LoopIdle
    \/ Delay

Spec == Init /\ [][Next]_vars

\* one pass through the body of loop(), up to delay(100)
LoopStep ==
    \/ LoopDigital
    \/ LoopStatus
    \/ LoopVersion
    \/ LoopPwm
    \/ LoopOutOfRange
    \/ LoopIdle

SendLive == SendUpTo(MaxLiveSent)

NextLive ==
    \/ Setup
    \/ SendLive
    \/ LoopDigital
    \/ LoopStatus
    \/ LoopVersion
    \/ LoopPwm
    \/ LoopOutOfRange
    \/ LoopIdle
    \/ Delay

\* the board runs setup() and then loop() for ever, and nothing else runs:
\* whichever of them is due is eventually executed; the host owes nothing
LiveSpec ==
    Init /\ [][NextLive]_vars
         /\ WF_vars(Setup) /\ WF_vars(LoopStep) /\ WF_vars(Delay)

-----------------------------------------------------------------------------
(* Vocabulary of the properties *)

\* bytes the firmware has read so far
Consumed == sent - Len(rx)

\* a step of loop() that reads a command frame
CommandStep == pc = "loop" /\ Len(rx) > 1 /\ pc' = "delay"

\* what a configured channel pin looks like at a given level
Driven(kind, v) == [mode |-> "OUTPUT", kind |-> kind, val |-> v]

\* the six physical outputs, by channel
ChannelOut(o) == [i \in Chan |-> o[PinsInit[i]]]

(* The host's reading of a reply line *)

DigitVal(c) == CHOOSE d \in 0..9 : DigitChar(d) = c

RECURSIVE ParseNat(_, _)
ParseNat(s, acc) ==
    IF s = <<>> THEN acc ELSE ParseNat(Tail(s), 10 * acc + DigitVal(Head(s)))

RECURSIVE SplitAt(_, _, _, _)
\* the fields of s, each ended by sep (a last field may lack it)
SplitAt(s, sep, cur, acc) ==
    IF s = <<>> THEN (IF cur = <<>> THEN acc ELSE Append(acc, cur))
    ELSE IF Head(s) = sep THEN SplitAt(Tail(s), sep, <<>>, Append(acc, cur))
    ELSE SplitAt(Tail(s), sep, Append(cur, Head(s)), acc)

\* the reply without its line separator
ReplyBody(t) ==
    IF Len(t) >= 2 /\ SubSeq(t, Len(t) - 1, Len(t)) = Println
    THEN SubSeq(t, 1, Len(t) - 2) ELSE t

\* the <<index, value>> pairs of a reply, in the order printed
ParsePairs(t) ==
    LET fields == SplitAt(ReplyBody(t), ",", <<>>, <<>>)
    IN  [k \in 1..Len(fields) |->
           LET iv == SplitAt(fields[k], ":", <<>>, <<>>)
           IN  <<ParseNat(iv[1], 0), ParseNat(iv[2], 0)>>]

-----------------------------------------------------------------------------
(* Properties *)

\* C1: a command (s, v) with s in 0..4 leaves status[s] = v and every other
\* entry of status[] as it was (the table is what a status query prints)
PwmCommandSetsOnlyItsEntry ==
    [][(CommandStep /\ rx[1] \in 0..4) =>
          /\ status'[rx[1]] = rx[2]
          /\ \A j \in Chan \ {rx[1]} : status'[j] = status[j]]_vars

\* C1 witness: a PWM command with value 128 has been applied while another
\* channel holds a non-zero value
PwmCommandApplied ==
    /\ pc = "delay" /\ tx # <<>>
    /\ pinByte \in 0..4 /\ pwmByte = 128 /\ status[pinByte] = 128
    /\ \E j \in Chan \ {pinByte} : status[j] # 0

\* C2: a command (5, v) stores 0 for v = 0 and 1 for any other v, drives the
\* mirror pin to that level, changes no other entry, and applied a second
\* time in a row changes neither the table nor any output
DigitalCommandNormalisedIdempotent ==
    [][(CommandStep /\ rx[1] = 5) =>
          LET level == IF rx[2] = 0 THEN 0 ELSE 1
          IN  /\ status'[5] = level
              /\ out'[pin_mirror] = Driven("digital", level)
              /\ \A j \in Chan \ {5} : status'[j] = status[j]
              /\ (Consumed >= 2 /\ pinByte = 5 /\ pwmByte = rx[2]) =>
                     (status' = status /\ out' = out)]_vars

\* C2 witness: (5, 128) has just been applied for the second time in a row
DigitalCommandRepeated ==
    /\ pc = "delay" /\ tx # <<>>
    /\ Consumed = 4 /\ pinByte = 5 /\ pwmByte = 128
    /\ status = [StatusInit EXCEPT ![5] = 1]
    /\ out[pin_mirror] = Driven("digital", 1)

\* C3: a command whose selector is 8 or above leaves the six entries of
\* status[] and the six channel outputs as they were
OutOfRangeCommandChangesNothing ==
    [][(CommandStep /\ rx[1] >= 8) =>
          /\ status' = status
          /\ ChannelOut(out') = ChannelOut(out)]_vars

\* C4: every index used on pins[] or status[] lies in 0..5
IndicesInBounds == idx \subseteq Chan

\* C5: once setup() has run, entry i of status[] is the value last written
\* to channel i's pin: a duty cycle for channels 0..4, a level for channel 5
StatusMirrorsOutputs ==
    pc # "setup" =>
        /\ \A i \in 0..4 : out[PinsInit[i]] = Driven("analog", status[i])
        /\ out[pin_mirror] = Driven("digital", status[5])

\* C6: a status query (6, v) changes neither status[] nor any output
StatusQueryChangesNothing ==
    [][(CommandStep /\ rx[1] = 6) => (status' = status /\ out' = out)]_vars

\* C6 witness: a status query has been answered while the table is not all zero
StatusQueryAnswered ==
    /\ pc = "delay" /\ tx # <<>>
    /\ pinByte = 6
    /\ \E j \in Chan : status[j] # 0

\* the text of the version reply
VersionLine == <<"0", ".", "1", "0", "\r", "\n">>

ScenarioStatus == [StatusInit EXCEPT ![0] = 128, ![5] = 1]

\* the reply line of the scenario
ScenarioLine ==
    <<"0", ":", "1", "2", "8", ",", "1", ":", "0", ",", "2", ":", "0", ",",
      "3", ":", "0", ",", "4", ":", "0", ",", "5", ":", "1", ",", "\r", "\n">>

\* C8: the reply to a status query reads as the six pairs <<i, status[i]>>
\* for i = 0..5 in ascending order; from the table left by (0,128), (5,1)
\* it is 0:128, 1:0, 2:0, 3:0, 4:0, 5:1
StatusReplyEnumeratesTable ==
    [][(CommandStep /\ rx[1] = 6) =>
          /\ ParsePairs(tx') = [k \in 1..6 |-> <<k - 1, status[k - 1]>>]
          /\ status = ScenarioStatus => tx' = ScenarioLine]_vars

\* C8 witness: three commands have been read, the last is (6,0), the table
\* is the one (0,128) and (5,1) leave, and the reply is the scenario's line
ScenarioAnswered ==
    /\ pc = "delay" /\ Consumed = 6
    /\ pinByte = 6 /\ pwmByte = 0
    /\ status = ScenarioStatus
    /\ tx = ScenarioLine

\* C9: until a command has been read every entry of status[] is 0, and a
\* status query read as the first command is answered with value 0 for
\* each of the six channels
StatusZeroUntilFirstCommand ==
    /\ Consumed = 0 => \A i \in Chan : status[i] = 0
    /\ (Consumed = 2 /\ pinByte = 6 /\ tx # <<>>) =>
           ParsePairs(tx) = [k \in 1..6 |-> <<k - 1, 0>>]

\* C9 witness: the first command read was a status query and it has been answered
FirstCommandIsStatusQuery ==
    Consumed = 2 /\ pinByte = 6 /\ tx # <<>> /\ pc = "delay"

\* every channel configured as an output at its inactive level
AllOff(o) ==
    /\ \A i \in 0..4 : o[PinsInit[i]] = Driven("analog", 0)
    /\ o[pin_mirror] = Driven("digital", LOW)

\* C10: setup() is the one step taken from the start, it is never taken
\* again, no byte is read before it has finished, and it leaves every
\* channel an output at its inactive level
SetupOnceBeforeCommands ==
    [][/\ pc = "setup" => (pc' = "loop" /\ AllOff(out') /\ Consumed' = 0)
       /\ pc # "setup" => pc' # "setup"
       /\ Len(rx') < Len(rx) => pc = "loop"]_vars

\* C10 witness: setup() has finished and nothing has been received yet
SetupDone == pc = "loop" /\ sent = 0 /\ AllOff(out)

ShortInputIsLeftAlone ==
    [][/\ (pc = "loop" /\ Len(rx) < 2 /\ pc' # pc) =>
            (rx' = rx /\ status' = status /\ out' = out /\ tx' = <<>>)
       /\ Len(rx') < Len(rx) => (Len(rx) >= 2 /\ Len(rx') = Len(rx) - 2)]_vars

\* C12 witness: an iteration has just passed with a single byte pending
IdleWithOneByte ==
    /\ pc = "delay" /\ tx = <<>>
    /\ Len(rx) = 1 /\ Consumed >= 2

\* C13: a command whose selector is outside 0..7 is answered with nothing
\* but the line separator: no index:value text, no error text
InvalidCommandAbsorbedSilently ==
    [][(CommandStep /\ rx[1] \notin 0..7) => ReplyBody(tx') = <<>>]_vars

CommandsEventuallyRead ==
    /\ \A n \in 0..(MaxLiveSent + 1) :
          (Len(rx) >= 2 /\ Consumed = n) ~> (Consumed > n)
    /\ (pc = "delay") ~> (pc = "loop")
    /\ []<>(pc = "loop")

\* C15 witness: a second frame has been read after waiting behind the first
SecondFrameEventuallyRead ==
    pc = "delay" /\ tx # <<>> /\ Consumed = 4

\* the number of line feeds in a text
LineFeeds(t) == Cardinality({k \in 1..Len(t) : t[k] = "\n"})

\* C16: the text printed for a command that has been read ends with the
\* line separator, holds exactly one, and so has nothing after it
ReplyEndsWithOneSeparator ==
    [][CommandStep =>
          /\ Len(tx') >= 2
          /\ SubSeq(tx', Len(tx') - 1, Len(tx')) = <<"\r", "\n">>
          /\ LineFeeds(tx') = 1]_vars

\* C16 witness: the longest reply, the status enumeration, has been printed
StatusLinePrinted ==
    /\ pc = "delay" /\ pinByte = 6
    /\ Len(tx) > 20 /\ tx[Len(tx)] = "\n"

\* C17: after every step entry i of status[] is what the most recent
\* command read for channel i carried (0 or 1 for channel 5), 0 if there
\* was none, and status[] changes only in a step that reads a command
\* whose selector is in 0..5
StatusFollowsLastCommand ==
    [][/\ status' = last'
       /\ status' # status => (CommandStep /\ rx[1] \in Chan)]_vars

\* C17 witness: three commands read, the last one (5,128), with channel 0
\* at 128 from an earlier one
ThreeCommandsRecorded ==
    /\ pc = "delay" /\ Consumed = 6
    /\ pinByte = 5 /\ pwmByte = 128
    /\ status[0] = 128 /\ status[5] = 1
    /\ status = last

\* C18: entries 0..4 of status[] are bytes and entry 5 is 0 or 1
StatusInRange ==
    /\ \A i \in 0..4 : status[i] \in 0..255
    /\ status[5] \in {0, 1}

\* C18 witness: (5,128) has been read and a PWM channel holds 128
StatusHoldsExtremes ==
    /\ pinByte = 5 /\ pwmByte = 128 /\ pc = "delay" /\ tx # <<>>
    /\ status[5] = 1
    /\ \E i \in 0..4 : status[i] = 128

ChannelReplyNamesNewStatus ==
    [][(CommandStep /\ rx[1] \in Chan) =>
          /\ ParsePairs(tx') = << <<rx[1], status'[rx[1]]>> >>
          /\ rx[1] \in 0..4 => ParsePairs(tx')[1][2] = rx[2]
          /\ rx[1] = 5 => ParsePairs(tx')[1][2] = (IF rx[2] = 0 THEN 0 ELSE 1)]_vars

\* C20 witness: (5,128) has been answered with 5:1
DigitalReplyNormalised ==
    /\ pc = "delay" /\ pinByte = 5 /\ pwmByte = 128
    /\ tx = <<"5", ":", "1", "\r", "\n">>

\* C21: no step takes more than two bytes from the receive queue, however
\* many are pending; bytes are taken, status[] and the outputs changed and
\* text printed only by a pass through loop(), every such pass ends in
\* delay(100), and only the end of the delay leads to the next pass
OneCommandPerDelay ==
    [][/\ Len(rx) - Len(rx') <= 2
       /\ (Len(rx') < Len(rx) \/ status' # status \/ out' # out \/ tx' # tx) =>
              (pc \in {"setup", "loop"} /\ pc' \in {"loop", "delay"} /\ pc' # pc)
       /\ (pc = "loop" /\ pc' # pc) => pc' = "delay"
       /\ pc = "delay" =>
              (Len(rx') >= Len(rx) /\ status' = status /\ out' = out /\ tx' = tx)]_vars

\* C21 witness: one command has been read out of six pending bytes, and
\* the other four are still pending during the delay
OneReadWithFourLeft ==
    /\ pc = "delay" /\ tx # <<>>
    /\ Consumed = 2 /\ Len(rx) = 4

\* C22: once setup() has run the mirror pin has only ever been written with
\* a level and each PWM pin with a duty cycle, and a command with selector
\* 6 or 7 writes no pin
OutputKindsNeverMixed ==
    [][/\ pc' # "setup" =>
            /\ out'[pin_mirror].kind = "digital"
            /\ \A i \in 0..4 : out'[PinsInit[i]].kind = "analog"
       /\ (CommandStep /\ rx[1] \in {6, 7}) => out' = out]_vars

=============================================================================
